---- MODULE Spec2Model ----
(***************************************************************************)
(* Model of the event-search route handler GET /search/events              *)
(* (src/unnamed/part_001, lines 193-410): query validation, date-window    *)
(* normalisation, the process-local result cache, the upstream call, the   *)
(* response normaliser, the window re-filter and the sort; and of the      *)
(* debounced events page (src/unnamed/part_002): its inputs, the effects   *)
(* that call search(), the debounce timer and the settling of requests.    *)
(*                                                                         *)
(* Representation of JavaScript values                                     *)
(*   - a string that carries a number or a keyword is a sequence of        *)
(*     one-character strings, wrapped as [k |-> "str", s |-> <<...>>];     *)
(*     an absent query parameter / undefined is [k |-> "undef"].           *)
(*   - a number is kept in tenths: [k |-> "num", v |-> 10 * value];        *)
(*     NaN is [k |-> "nan"].                                               *)
(*   - a millisecond timestamp (Date.now(), Date#getTime(), Date.parse())  *)
(*     is [k |-> "t", s |-> whole seconds, ms |-> 0..999]: 180 days in     *)
(*     milliseconds does not fit the checker's 32-bit integers.            *)
(*   - an ISO string without milliseconds ("....:SSZ") is its count of     *)
(*     whole seconds.                                                      *)
(*   - a calendar date "YYYY-MM-DD" is [k |-> "date", day |-> n], n the    *)
(*     number of days since the model's epoch; the local zone is a fixed   *)
(*     offset tz (seconds east of UTC), no daylight saving.                *)
(***************************************************************************)
EXTENDS Integers, Sequences, FiniteSets, TLC

VARIABLES
    apiKey,     \* process.env.TICKETMASTER_API_KEY
    tz,         \* offset of the process's local time zone, seconds east of UTC
    now,        \* the wall clock read by Date.now() / new Date()
    cache,      \* the module-level Map: cache key -> [ts, data]
    pc,         \* per invocation: "idle", "fetch" (awaiting the upstream), "done"
    req,        \* per invocation: the raw query parameters
    ctx,        \* per invocation: the handler's locals that survive an await
    up,         \* per invocation: what the upstream call settled with
    resp,       \* per invocation: what GET returned (or that it threw)
    hist,       \* per invocation: what the invocation did (cache read, upstream calls, store)
    ticks,      \* number of clock advances so far
    ui          \* the events page in the browser: its React state, refs and timer

vars == <<apiKey, tz, now, cache, pc, req, ctx, up, resp, hist, ticks, ui>>

----------------------------------------------------------------------------
(* Bounds of the model *)

NumSlots == 2       \* invocations of GET in one behaviour (they may overlap)
MaxTicks == 3       \* clock advances in one behaviour
MaxSearches == 3    \* calls of the page's search() in one behaviour

----------------------------------------------------------------------------
(* JavaScript values *)

Undefined == [k |-> "undef"]
NaN == [k |-> "nan"]
S(chars) == [k |-> "str", s |-> chars]
Num(tenths) == [k |-> "num", v |-> tenths]
T(sec, msec) == [k |-> "t", s |-> sec, ms |-> msec]
PositiveInfinity == [k |-> "inf"]

Digits == {"0", "1", "2", "3", "4", "5", "6", "7", "8", "9"}

DigitVal(c) ==
    CASE c = "0" -> 0 [] c = "1" -> 1 [] c = "2" -> 2 [] c = "3" -> 3 [] c = "4" -> 4
      [] c = "5" -> 5 [] c = "6" -> 6 [] c = "7" -> 7 [] c = "8" -> 8 [] c = "9" -> 9

RECURSIVE DigitsVal(_)
DigitsVal(cs) ==
    IF cs = <<>> THEN 0 ELSE 10 * DigitsVal(SubSeq(cs, 1, Len(cs) - 1)) + DigitVal(cs[Len(cs)])

AllDigits(cs) == \A i \in 1..Len(cs) : cs[i] \in Digits

\* Number(string) for the decimal literals the model uses: "" is 0, an optional
\* sign, digits and at most one fractional digit; anything else is NaN.
UnsignedTenths(cs) ==
    LET dots == {i \in 1..Len(cs) : cs[i] = "."} IN
    IF cs = <<>> THEN NaN
    ELSE IF dots = {} THEN (IF AllDigits(cs) THEN Num(10 * DigitsVal(cs)) ELSE NaN)
    ELSE LET d == CHOOSE i \in dots : TRUE
             ip == SubSeq(cs, 1, d - 1)
             fp == SubSeq(cs, d + 1, Len(cs))
         IN IF Cardinality(dots) = 1 /\ ip # <<>> /\ Len(fp) = 1 /\ AllDigits(ip) /\ AllDigits(fp)
            THEN Num(10 * DigitsVal(ip) + DigitsVal(fp))
            ELSE NaN

Number(cs) ==
    IF cs = <<>> THEN Num(0)
    ELSE IF cs[1] = "-"
         THEN LET u == UnsignedTenths(Tail(cs)) IN IF u = NaN THEN NaN ELSE Num(0 - u.v)
         ELSE UnsignedTenths(cs)

\* String.prototype.trim on blanks
RECURSIVE trim(_)
trim(cs) ==
    IF cs = <<>> THEN cs
    ELSE IF cs[1] = " " THEN trim(Tail(cs))
    ELSE IF cs[Len(cs)] = " " THEN trim(SubSeq(cs, 1, Len(cs) - 1))
    ELSE cs

\* JavaScript truthiness of an optional string or number
Truthy(x) ==
    /\ x.k # "undef" /\ x.k # "empty" /\ x.k # "nan"
    /\ (x.k = "str" => x.s # <<>>)
    /\ (x.k = "num" => x.v # 0)

----------------------------------------------------------------------------
(* QuerySchema *)

MaxQ == 80
LatMax == 90
LngMax == 180
MinRadius == 1
MaxRadius == 1000
DefaultRadius == 25
MaxPage == 49

\* z.coerce.number().min(lo).max(hi): the issue, if any, of one numeric field
CoerceIssue(raw, lo, hi) ==
    LET n == Number(raw.s) IN
    n = NaN \/ n.v < 10 * lo \/ n.v > 10 * hi

q_issue(raw) == raw.k = "str" /\ Len(trim(raw.s)) > MaxQ
lat_issue(raw) == raw.k = "str" /\ CoerceIssue(raw, 0 - LatMax, LatMax)
lng_issue(raw) == raw.k = "str" /\ CoerceIssue(raw, 0 - LngMax, LngMax)
radius_issue(raw) == raw.k = "str" /\ CoerceIssue(raw, MinRadius, MaxRadius)
\* the page rule without its ceiling
page_issue_NoMax(raw) == raw.k = "str" /\ (Number(raw.s) = NaN \/ Number(raw.s).v < 0)

page_issue(raw) == raw.k = "str" /\ CoerceIssue(raw, 0, MaxPage)

\* parsed.error.flatten().fieldErrors: the fields that carry an issue
FieldErrors(query) ==
    {f \in {"q", "lat", "lng", "radius", "page"} :
        CASE f = "q" -> q_issue(query.q)
          [] f = "lat" -> lat_issue(query.lat)
          [] f = "lng" -> lng_issue(query.lng)
          [] f = "radius" -> radius_issue(query.radius)
          [] f = "page" -> page_issue(query.page)}

\* the result object of safeParse for the given issues
ParseResult(query, errs) ==
    [success |-> errs = {},
     fieldErrors |-> errs,
     data |-> [q |-> IF query.q.k = "str" THEN S(trim(query.q.s)) ELSE Undefined,
               lat |-> IF query.lat.k = "str" THEN Number(query.lat.s) ELSE Undefined,
               lng |-> IF query.lng.k = "str" THEN Number(query.lng.s) ELSE Undefined,
               radius |-> IF query.radius.k = "str" THEN Number(query.radius.s)
                          ELSE Num(10 * DefaultRadius),
               from |-> query.from,
               to |-> query.to,
               page |-> IF query.page.k = "str" THEN Number(query.page.s) ELSE Num(0)]]

\* QuerySchema.safeParse(...): success and the typed data
QuerySchema(query) == ParseResult(query, FieldErrors(query))

----------------------------------------------------------------------------
(* Dates *)

SecPerDay == 60 * 60 * 24
InvalidDate == [k |-> "invalid"]
Iso(sec) == [k |-> "iso", s |-> sec]
RangeError == [k |-> "throw"]

Before(a, b) == a.s < b.s \/ (a.s = b.s /\ a.ms < b.ms)
AtMost(a, b) == a.s < b.s \/ (a.s = b.s /\ a.ms <= b.ms)
\* a - b in milliseconds; used where the two instants are minutes apart
DiffMs(a, b) == (a.s - b.s) * 1000 + (a.ms - b.ms)
PlusMs(a, d) == T(a.s + ((a.ms + d) \div 1000), (a.ms + d) % 1000)

\* Date#toISOString with the milliseconds dropped; throws on an invalid Date
toIsoNoMs(d) == IF d = InvalidDate THEN RangeError ELSE Iso(d.s)

\* new Date(y, m - 1, d, 0, 0, 0, 0): local midnight of the calendar date
ymdToLocalStart(s) ==
    IF s.k = "date" THEN T(s.day * SecPerDay - tz, 0) ELSE InvalidDate

\* new Date(y, m - 1, d, 23, 59, 59, 999): local end of day
ymdToLocalEnd(s) ==
    IF s.k = "date" THEN T(s.day * SecPerDay + (SecPerDay - 1) - tz, 999) ELSE InvalidDate

\* the default start taken as local midnight of the current day
startIsoFromYMD_TodayMidnight(s) ==
    IF Truthy(s) THEN toIsoNoMs(ymdToLocalStart(s))
    ELSE toIsoNoMs(T(((now.s + tz) \div SecPerDay) * SecPerDay - tz, 0))

startIsoFromYMD(s) ==
    IF Truthy(s) THEN toIsoNoMs(ymdToLocalStart(s)) ELSE toIsoNoMs(now)

endIsoFromYMD(s) ==
    IF Truthy(s) THEN toIsoNoMs(ymdToLocalEnd(s)) ELSE Undefined

\* new Date(isoString)
DateOfIso(iso) == T(iso.s, 0)

\* 1000 * 60 * 60 * 24 * 180 ms, in seconds: both operands of the comparison are
\* whole seconds, so the factor 1000 cancels
MAX_WINDOW_S == 60 * 60 * 24 * 180

\* the window left in input order
SwapWindow_Never(w) == w

\* lines 283-287: keep start <= end
SwapWindow(w) ==
    IF w.endISO # Undefined /\ Before(DateOfIso(w.endISO), DateOfIso(w.startISO))
    THEN [startISO |-> w.endISO, endISO |-> w.startISO]
    ELSE w

\* the cap applied to the wrong bound: start pulled forward instead of end pulled back
CapWindow_MovesStart(w) ==
    IF w.endISO # Undefined /\ w.endISO.s - w.startISO.s > MAX_WINDOW_S
    THEN [startISO |-> toIsoNoMs(T(w.endISO.s - MAX_WINDOW_S, 0)), endISO |-> w.endISO]
    ELSE w

\* lines 288-294: cap the window
CapWindow(w) ==
    IF w.endISO # Undefined /\ w.endISO.s - w.startISO.s > MAX_WINDOW_S
    THEN [startISO |-> w.startISO, endISO |-> toIsoNoMs(T(w.startISO.s + MAX_WINDOW_S, 0))]
    ELSE w

\* lines 279-294 once both strings are converted
WindowOf(s0, e0) ==
    IF s0 = RangeError \/ e0 = RangeError
    THEN [threw |-> TRUE, startISO |-> Undefined, endISO |-> Undefined]
    ELSE [threw |-> FALSE] @@ CapWindow(SwapWindow([startISO |-> s0, endISO |-> e0]))

\* lines 279-294: the resolved window, or the exception toISOString raised
ResolveWindow(from, to) == WindowOf(startIsoFromYMD(from), endIsoFromYMD(to))

----------------------------------------------------------------------------
(* Cache *)

TTL_MS == 300000

\* String(n) of a non-negative integer
DigitChar(n) == CHOOSE c \in Digits : DigitVal(c) = n

RECURSIVE NatToString(_)
NatToString(n) ==
    IF n < 10 THEN <<DigitChar(n)>> ELSE NatToString(n \div 10) \o <<DigitChar(n % 10)>>

\* String(n) of a number kept in tenths: "45", "-7", "1.5"; -0 prints as "0"
NumberToString(v) ==
    (IF v < 0 THEN <<"-">> ELSE <<>>)
    \o NatToString((IF v < 0 THEN 0 - v ELSE v) \div 10)
    \o (IF v % 10 = 0 THEN <<>> ELSE <<".">> \o NatToString((IF v < 0 THEN 0 - v ELSE v) % 10))

\* one member of the JSON text: its name, the kind of its token and the token's
\* characters (a string's content, a number's digits, an ISO string's seconds)
JSONMember(m) ==
    [name |-> m.name,
     json |-> CASE m.value.k = "num" -> "number"
                [] m.value.k \in {"str", "iso"} -> "string"
                [] OTHER -> "null",
     text |-> CASE m.value.k = "num" -> NumberToString(m.value.v)
                [] m.value.k = "str" -> m.value.s
                [] m.value.k = "iso" -> NatToString(m.value.s)
                [] OTHER -> <<>>]

IsDefined(m) == m.value # Undefined

\* JSON.stringify of an object literal: the members in source order, those whose
\* value is undefined left out
JSONStringify(obj) ==
    [i \in 1..Len(SelectSeq(obj, IsDefined)) |-> JSONMember(SelectSeq(obj, IsDefined)[i])]

\* { q, lat, lng, radius, startISO, endISO, page }
KeyObject(d, w) ==
    << [name |-> "q", value |-> d.q],
       [name |-> "lat", value |-> d.lat],
       [name |-> "lng", value |-> d.lng],
       [name |-> "radius", value |-> d.radius],
       [name |-> "startISO", value |-> w.startISO],
       [name |-> "endISO", value |-> w.endISO],
       [name |-> "page", value |-> d.page] >>

\* the key with its last member left out
cacheKey_WithoutPage(d, w) == JSONStringify(SubSeq(KeyObject(d, w), 1, 6))

\* JSON.stringify({ q, lat, lng, radius, startISO, endISO, page })
cacheKey(d, w) == JSONStringify(KeyObject(d, w))

\* hit && Date.now() - hit.ts < TTL_MS
CacheFresh(entry) == DiffMs(now, entry.ts) < TTL_MS

\* the age test turned round: only an expired entry is served
CacheHit_StaleOnly(key) == key \in DOMAIN cache /\ ~CacheFresh(cache[key])

CacheHit(key) == key \in DOMAIN cache /\ CacheFresh(cache[key])

\* a store that keeps an entry already present under the key
CacheSet_KeepsFirst(key, data) ==
    [k \in DOMAIN cache \cup {key} |-> IF k \in DOMAIN cache THEN cache[k]
                                        ELSE [ts |-> now, data |-> data]]

\* cache.set(cacheKey, { ts: Date.now(), data })
CacheSet(key, data) ==
    [k \in DOMAIN cache \cup {key} |-> IF k = key THEN [ts |-> now, data |-> data] ELSE cache[k]]

----------------------------------------------------------------------------
(* Upstream query *)

\* lines 307-323: the query sent to the upstream API
tmUrl(key, d, w) ==
    [apikey |-> key,
     size |-> 100,
     page |-> d.page,
     sort |-> "relevance,desc",
     locale |-> "*",
     unit |-> IF d.lat # Undefined /\ d.lng # Undefined THEN "km" ELSE "",
     keyword |-> IF Truthy(d.q) THEN d.q ELSE Undefined,
     latlong |-> IF d.lat # Undefined /\ d.lng # Undefined THEN <<d.lat, d.lng>> ELSE <<>>,
     radius |-> IF d.lat # Undefined /\ d.lng # Undefined THEN d.radius ELSE Undefined,
     startDateTime |-> w.startISO,
     endDateTime |-> w.endISO]

----------------------------------------------------------------------------
(* Response normaliser, window re-filter, sort *)

\* Number(x) of a JSON value: a string is parsed, a number is itself
ToNumber(x) ==
    CASE x.k = "str" -> Number(x.s)
      [] x.k = "num" -> x
      [] OTHER -> NaN

\* lines 369-375: venue?.location?.latitude && venue?.location?.longitude
\*                  ? { lat: Number(latitude), lng: Number(longitude) } : undefined
VenueCoords(latitude, longitude) ==
    IF Truthy(latitude) /\ Truthy(longitude)
    THEN [lat |-> ToNumber(latitude), lng |-> ToNumber(longitude)]
    ELSE Undefined

\* ev.dates?.start?.dateTime ?? ev.dates?.start?.localDate ?? ""
NormalizeEvent(ev) ==
    [id |-> ev.id,
     start |-> IF ev.dateTime # Undefined THEN ev.dateTime
               ELSE IF ev.localDate # Undefined THEN ev.localDate
               ELSE [k |-> "empty"],
     coords |-> VenueCoords(ev.latitude, ev.longitude)]

\* raw?._embedded?.events?.map(...) ?? []
NormalizeEvents(raw) ==
    IF raw.embedded THEN [i \in 1..Len(raw.events) |-> NormalizeEvent(raw.events[i])] ELSE <<>>

\* Date.parse: a full timestamp is its instant, a date-only string is UTC midnight
DateParse(str) ==
    CASE str.k = "ts" -> T(str.s, str.ms)
      [] str.k = "date" -> T(str.day * SecPerDay, 0)
      [] OTHER -> NaN

\* /^\d{4}-\d{2}-\d{2}$/.test(e.start)
IsDateOnly(str) == str.k = "date"

\* the filter without its upper bound
InWindow_NoEnd(e, startMs, endMs) ==
    DateParse(e.start) # NaN
    /\ AtMost(startMs, IF IsDateOnly(e.start)
                       THEN T(e.start.day * SecPerDay + (SecPerDay - 1) - tz, 999)
                       ELSE DateParse(e.start))

\* lines 384-395: the predicate of events.filter
InWindow(e, startMs, endMs) ==
    LET parsed == DateParse(e.start)
        ms == IF IsDateOnly(e.start)
              THEN T(e.start.day * SecPerDay + (SecPerDay - 1) - tz, 999)
              ELSE parsed
    IN /\ parsed # NaN
       /\ AtMost(startMs, ms)
       /\ (endMs = PositiveInfinity \/ AtMost(ms, endMs))

RECURSIVE FilterSeq(_, _, _)
FilterSeq(es, startMs, endMs) ==
    IF es = <<>> THEN <<>>
    ELSE (IF InWindow(Head(es), startMs, endMs) THEN <<Head(es)>> ELSE <<>>)
         \o FilterSeq(Tail(es), startMs, endMs)

\* the comparator of line 398: Date.parse(a.start) - Date.parse(b.start) > 0
SortsAfter(a, b) == Before(DateParse(b.start), DateParse(a.start))

\* Array.prototype.sort is stable: insert each element after the last one that
\* does not sort after it
RECURSIVE Insert(_, _)
Insert(sorted, e) ==
    IF sorted = <<>> THEN <<e>>
    ELSE IF SortsAfter(sorted[Len(sorted)], e)
         THEN Insert(SubSeq(sorted, 1, Len(sorted) - 1), e) \o <<sorted[Len(sorted)]>>
         ELSE sorted \o <<e>>

RECURSIVE SortEvents(_)
SortEvents(es) ==
    IF es = <<>> THEN <<>>
    ELSE Insert(SortEvents(SubSeq(es, 1, Len(es) - 1)), es[Len(es)])

\* lines 400-404
PageInfo(raw) ==
    IF raw.page = Undefined THEN [page |-> 0, totalPages |-> 0, total |-> 0]
    ELSE [page |-> raw.page.number, totalPages |-> raw.page.totalPages,
          total |-> raw.page.totalElements]

\* lines 346-406: the body of a successful response
BuildData(raw, w) ==
    [results |-> SortEvents(FilterSeq(NormalizeEvents(raw), DateOfIso(w.startISO),
                    IF w.endISO # Undefined THEN DateOfIso(w.endISO) ELSE PositiveInfinity)),
     pageInfo |-> PageInfo(raw)]

----------------------------------------------------------------------------
(* Inputs *)

Slots == 1..NumSlots

Jazz == <<"j", "a", "z", "z">>
Day(n) == [k |-> "date", day |-> n]
Junk == [k |-> "junk"]
At(day, sec, msec) == [k |-> "ts", s |-> day * SecPerDay + sec, ms |-> msec]

ApiKeys == {Undefined, S(<<>>), S(<<"K", "1">>)}
TZOffsets == {0 - 18000}
Now0 == T(100 * SecPerDay + 12 * 3600, 250)
ClockSteps == {1, TTL_MS - 1}

\* ?q=jazz&from=<day 100>&to=<day 101>
BaseQuery ==
    [q |-> S(Jazz), lat |-> Undefined, lng |-> Undefined, radius |-> Undefined,
     from |-> Day(100), to |-> Day(101), page |-> Undefined,
     nocache |-> Undefined, debug |-> Undefined]

With(query, field, value) == [query EXCEPT ![field] = value]

\* the queries of the overlapping-requests specification
Queries ==
    { BaseQuery,
      With(BaseQuery, "q", S(<<" ">> \o Jazz \o <<" ">>)),
      With(BaseQuery, "from", Undefined),
      With(BaseQuery, "nocache", S(<<"1">>)),
      With(BaseQuery, "debug", S(<<"1">>)),
      With(With(BaseQuery, "nocache", S(<<"1">>)), "debug", S(<<"1">>)),
      With(BaseQuery, "page", S(<<"5", "0">>)),
      With(BaseQuery, "from", Junk) }

Empty == [k |-> "empty"]
Chars(n, c) == [i \in 1..n |-> c]

\* the from/to strings of the single-request specification: absent, "", four
\* calendar dates around the clock's day 100, and a string that is no date
DateInputs == {Undefined, Empty, Day(99), Day(100), Day(101), Day(300), Junk}

WindowQueries ==
    {[BaseQuery EXCEPT !.from = f, !.to = t] : f \in DateInputs, t \in DateInputs}

KeywordInputs ==
    { Undefined, S(<<>>), S(Chars(MaxQ, "a")), S(Chars(MaxQ + 1, "a")),
      S(<<" ">> \o Chars(MaxQ, "a") \o <<" ">>) }

LatInputs ==
    { S(<<"4", "5">>), S(<<"9", "0">>), S(<<"9", "0", ".", "1">>), S(<<"9", "1">>),
      S(<<"-", "9", "0">>), S(<<"-", "9", "1">>), S(<<"a", "b", "c">>), S(<<>>) }

LngInputs == { S(<<"1", "8", "0">>), S(<<"1", "8", "1">>), S(<<"-", "1", "8", "1">>), S(<<"x">>) }

RadiusInputs ==
    { S(<<"0">>), S(<<"0", ".", "9">>), S(<<"1">>), S(<<"1", "0", "0", "0">>),
      S(<<"1", "0", "0", "1">>), S(<<"k", "m">>), S(<<>>) }

PageInputs ==
    { S(<<"0">>), S(<<"4", "9">>), S(<<"5", "0">>), S(<<"-", "1">>), S(<<"1", ".", "5">>),
      S(<<"x">>), S(<<>>) }

FlagInputs == { S(<<"1">>), S(<<"t", "r", "u", "e">>) }

\* one field of the base query varied at a time, then two invalid fields together
FieldQueries ==
    {With(BaseQuery, "q", v) : v \in KeywordInputs}
    \cup {With(With(BaseQuery, "lng", S(<<"7">>)), "lat", v) : v \in LatInputs}
    \cup {With(With(BaseQuery, "lat", S(<<"7">>)), "lng", v) : v \in LngInputs}
    \cup {With(BaseQuery, "lat", S(<<"9", "1">>))}
    \cup {With(BaseQuery, "radius", v) : v \in RadiusInputs}
    \cup {With(BaseQuery, "page", v) : v \in PageInputs}
    \cup {With(BaseQuery, "nocache", v) : v \in FlagInputs}
    \cup {With(BaseQuery, "debug", v) : v \in FlagInputs}
    \cup {With(With(BaseQuery, "page", S(<<"5", "0">>)), "q", S(Chars(MaxQ + 1, "a")))}
    \cup {With(With(BaseQuery, "page", S(<<"x">>)), "from", Junk)}

\* the queries of the single-request specification
AllQueries == WindowQueries \cup FieldQueries

\* the queries of the two-request key specification: the base query with its
\* keyword padded, empty or absent, a centre in several spellings, the radius and
\* the page spelled out, equal to their defaults or different, and windows that
\* resolve to the same or to different bounds
KeyQueries ==
    { BaseQuery,
      With(BaseQuery, "q", S(<<" ">> \o Jazz \o <<" ">>)),
      With(BaseQuery, "q", S(<<"j", "a", "z">>)),
      With(BaseQuery, "q", S(<<>>)),
      With(BaseQuery, "q", Undefined),
      With(With(BaseQuery, "lat", S(<<"4", "5">>)), "lng", S(<<"7">>)),
      With(With(BaseQuery, "lat", S(<<"4", "5", ".", "0">>)), "lng", S(<<"7">>)),
      With(With(BaseQuery, "lat", S(<<"4", ".", "5">>)), "lng", S(<<"7">>)),
      With(With(BaseQuery, "lat", S(<<"7">>)), "lng", S(<<"4", "5">>)),
      With(With(BaseQuery, "lat", S(<<"-", "0">>)), "lng", S(<<>>)),
      With(BaseQuery, "lat", S(<<"4", "5">>)),
      With(BaseQuery, "radius", S(<<"2", "5">>)),
      With(BaseQuery, "radius", S(<<"2", ".", "5">>)),
      With(BaseQuery, "page", S(<<"0">>)),
      With(BaseQuery, "page", S(<<"1", "5">>)),
      With(BaseQuery, "page", S(<<"1", ".", "5">>)),
      With(BaseQuery, "to", Day(300)),
      With(BaseQuery, "to", Day(301)),
      With(BaseQuery, "to", Undefined),
      With(BaseQuery, "from", Undefined) }

\* an upstream event record: its id, dates.start.dateTime, dates.start.localDate
\* and the latitude and longitude of its first venue's location
RawEvent(id, dateTime, localDate) ==
    [id |-> id, dateTime |-> dateTime, localDate |-> localDate,
     latitude |-> Undefined, longitude |-> Undefined]

Located(ev, latitude, longitude) ==
    [ev EXCEPT !.latitude = latitude, !.longitude = longitude]

MixedEvents ==
    << RawEvent(1, At(100, 12 * 3600, 0), Day(100)),
       RawEvent(2, Undefined, Day(100)),
       RawEvent(3, Undefined, Day(101)),
       RawEvent(4, Junk, Undefined),
       RawEvent(5, At(99, 0, 0), Undefined),
       RawEvent(6, Undefined, Undefined),
       RawEvent(7, At(100, 2 * 3600, 500), Undefined),
       Located(RawEvent(8, At(100, 13 * 3600, 0), Undefined),
               S(<<"4", "3", ".", "6">>), S(<<"-", "7", "9", ".", "3">>)),
       Located(RawEvent(9, At(100, 13 * 3600, 0), Undefined), Num(0), Num(0)),
       Located(RawEvent(10, At(100, 13 * 3600, 0), Undefined),
               S(<<"a", "b", "c">>), S(<<"7">>)),
       Located(RawEvent(11, At(100, 13 * 3600, 0), Undefined),
               S(<<"4", "5">>), Undefined),
       Located(RawEvent(12, At(100, 13 * 3600, 0), Undefined), S(<<"0">>), S(<<"0">>)),
       Located(RawEvent(13, At(100, 13 * 3600, 0), Undefined), Num(436), Num(0 - 793)) >>

Payload(events) ==
    [embedded |-> TRUE, events |-> events,
     page |-> [number |-> 0, totalPages |-> 1, totalElements |-> Len(events)]]

EmptyPayload == [embedded |-> FALSE, events |-> <<>>, page |-> Undefined]

\* what fetch() settles with: a rejection (a transport error, or the call aborted
\* before the response head arrived), or a Response with its body: "json" a
\* complete JSON text, "text" a complete text that is not JSON, "cut" a body
\* whose stream was aborted before its end (raw is what it would have carried)
Reject == [k |-> "reject"]
Response(status, body, raw) ==
    [k |-> "resp", ok |-> (status >= 200 /\ status <= 299), status |-> status,
     body |-> body, raw |-> raw]

Upstreams ==
    { Response(200, "json", Payload(MixedEvents)),
      Response(200, "json", EmptyPayload),
      Response(200, "text", EmptyPayload),
      Response(200, "cut", Payload(MixedEvents)),
      Response(401, "json", EmptyPayload),
      Response(503, "text", EmptyPayload),
      Reject }

\* the upstream outcomes of the two-request key specification
KeyUpstreams ==
    { Response(200, "json", Payload(MixedEvents)),
      Response(401, "json", EmptyPayload) }

----------------------------------------------------------------------------
(* The events page (src/unnamed/part_002): values *)

DebounceDelay == 600

Null == [k |-> "null"]
Msg(text) == [k |-> "msg", text |-> text]
NoTimer == 0 - 1

\* the centre of the map, coordinates in tenths of a degree
TORONTO == [lat |-> Num(436), lng |-> Num(0 - 794)]
NewYork == [lat |-> Num(407), lng |-> Num(0 - 740)]

\* lines 78-87: the query string, as the members URLSearchParams was given
queryString(u) ==
    [q |-> IF trim(u.q) # <<>> THEN S(trim(u.q)) ELSE Undefined,
     lat |-> NumberToString(u.center.lat.v),
     lng |-> NumberToString(u.center.lng.v),
     radius |-> NumberToString(u.radius.v),
     from |-> IF Truthy(u.from) THEN u.from ELSE Undefined,
     to |-> IF Truthy(u.to) THEN u.to ELSE Undefined]

\* lines 213-217: the radius clamped to 1..200
ClampRadius(val) ==
    IF val.v < 10 * 1 THEN Num(10 * 1)
    ELSE IF val.v > 10 * 200 THEN Num(10 * 200)
    ELSE val

\* an event card as far as the page looks at it: id and priceRange.max
Card(id, max) == [id |-> id, max |-> max]

\* b.priceRange?.max ?? 0
PriceMax(e) == IF e.max = Undefined THEN 0 ELSE e.max.v

\* line 117: results.sort((a, b) => PriceMax(b) - PriceMax(a)), a stable sort
RECURSIVE InsertByPrice(_, _)
InsertByPrice(sorted, e) ==
    IF sorted = <<>> THEN <<e>>
    ELSE IF PriceMax(e) > PriceMax(sorted[Len(sorted)])
         THEN InsertByPrice(SubSeq(sorted, 1, Len(sorted) - 1), e) \o <<sorted[Len(sorted)]>>
         ELSE sorted \o <<e>>

RECURSIVE SortByPrice(_)
SortByPrice(es) ==
    IF es = <<>> THEN <<>>
    ELSE InsertByPrice(SortByPrice(SubSeq(es, 1, Len(es) - 1)), es[Len(es)])

\* what the route answers the page: ok is r.ok, json what r.json() resolves
\* with, NotJson a body on which r.json() throws
NotJson == [k |-> "notjson"]
Arr(items) == [k |-> "arr", items |-> items]
Body(results, error, faultstring) ==
    [k |-> "obj", results |-> results, error |-> error, faultstring |-> faultstring]
Answer(ok, json) == [k |-> "answer", ok |-> ok, json |-> json]
FetchFailed == [k |-> "failed"]

CardsA == << Card(1, Num(500)), Card(2, Undefined), Card(3, Num(800)) >>
CardsB == << Card(4, Num(0)), Card(5, Num(300)) >>

PageAnswers ==
    { Answer(TRUE, Body(Arr(CardsA), Undefined, Undefined)),
      Answer(TRUE, Body(Arr(CardsB), Undefined, Undefined)),
      Answer(TRUE, Body(Undefined, Undefined, Undefined)),
      Answer(FALSE, Body(Undefined, Msg("Invalid query"), Undefined)),
      Answer(FALSE, Body(Undefined, Msg("Ticketmaster request failed"), Msg("Invalid ApiKey"))),
      Answer(FALSE, Body(Undefined, Undefined, Undefined)),
      Answer(FALSE, NotJson),
      FetchFailed }

\* lines 108-111: json?.details?.fault?.faultstring || json?.error || "Search failed"
ErrorMessage(json) ==
    IF json.faultstring # Undefined THEN json.faultstring
    ELSE IF json.error # Undefined THEN json.error
    ELSE Msg("Search failed")

\* lines 106-124: the message a settled request leaves in `error`, Null if none
ErrorOf(a) ==
    CASE a = FetchFailed -> Msg("Failed to fetch")
      [] a # FetchFailed /\ a.json = NotJson -> Msg("Unexpected token")
      [] a # FetchFailed /\ a.json # NotJson /\ ~a.ok -> ErrorMessage(a.json)
      [] OTHER -> Null

\* lines 114-119: the cards a successful answer puts on display
CardsOf(a) ==
    IF a.json.results # Undefined THEN SortByPrice(a.json.results.items) ELSE <<>>

\* the inputs the model types into the form
KeywordsTyped == { <<>>, <<"a">>, <<"a", " ">> }
RadiiTyped == { Num(0), Num(2500) }
DatesTyped == { Day(100) }
Places == { TORONTO, NewYork }

\* lines 63-75, 89: the component before its first render is committed
PageInit ==
    [mounted |-> FALSE,
     q |-> <<>>, from |-> Empty, to |-> Empty, radius |-> Num(250), center |-> TORONTO,
     loading |-> FALSE, error |-> Null, events |-> <<>>,
     timer |-> NoTimer, idle |-> 0,
     reqs |-> <<>>, lastController |-> 0]

----------------------------------------------------------------------------
(* State *)

None == [k |-> "none"]
Threw == [k |-> "threw"]
Json(status, body) == [k |-> "json", status |-> status, body |-> body]

NoHist ==
    [out |-> "", lookedUp |-> FALSE, found |-> FALSE, age |-> 0, at |-> Now0,
     calls |-> 0, stored |-> FALSE, storedAt |-> Now0, storeNo |-> 0, racing |-> {}]

Init ==
    /\ apiKey \in ApiKeys
    /\ tz \in TZOffsets
    /\ now = Now0
    /\ cache = << >>
    /\ pc = [r \in Slots |-> "idle"]
    /\ req = [r \in Slots |-> None]
    /\ ctx = [r \in Slots |-> None]
    /\ up = [r \in Slots |-> None]
    /\ resp = [r \in Slots |-> None]
    /\ hist = [r \in Slots |-> NoHist]
    /\ ticks = 0
    /\ ui = PageInit

----------------------------------------------------------------------------
(* GET, lines 259-331: from the call to the first await *)

IsBypass(query) == query.nocache = S(<<"1">>)
IsDebug(query) == query.debug = S(<<"1">>)

\* the prefix with the validation ahead of the credential check
Prefix_ValidatesFirst(query, parsed, w, key) ==
    CASE ~parsed.success -> "400"
      [] parsed.success /\ ~Truthy(apiKey) -> "500"
      [] parsed.success /\ Truthy(apiKey) /\ w.threw -> "throw"
      [] parsed.success /\ Truthy(apiKey) /\ ~w.threw /\ ~IsBypass(query) /\ CacheHit(key) -> "hit"
      [] OTHER -> IF IsDebug(query) THEN "debug" ELSE "fetch"

\* where the synchronous prefix of GET ends
Prefix(query, parsed, w, key) ==
    CASE ~Truthy(apiKey) -> "500"
      [] Truthy(apiKey) /\ ~parsed.success -> "400"
      [] Truthy(apiKey) /\ parsed.success /\ w.threw -> "throw"
      [] Truthy(apiKey) /\ parsed.success /\ ~w.threw /\ ~IsBypass(query) /\ CacheHit(key) -> "hit"
      [] OTHER -> IF IsDebug(query) THEN "debug" ELSE "fetch"

\* the effects of the prefix that ended at `out`
GETEffects(r, query, parsed, w, key, url, out, looked) ==
    /\ req' = [req EXCEPT ![r] = query]
    /\ pc' = [pc EXCEPT ![r] = IF out = "fetch" THEN "fetch" ELSE "done"]
    /\ ctx' = [ctx EXCEPT ![r] =
          IF out \in {"hit", "debug", "fetch"}
          THEN [k |-> "ctx", data |-> parsed.data, startISO |-> w.startISO,
                endISO |-> w.endISO, cacheKey |-> key, nocache |-> IsBypass(query),
                tmUrl |-> url]
          ELSE None]
    /\ resp' = [resp EXCEPT ![r] =
          CASE out = "500" -> Json(500, [error |-> "Missing TICKETMASTER_API_KEY"])
            [] out = "400" -> Json(400, [error |-> "Invalid query",
                                         details |-> parsed.fieldErrors])
            [] out = "throw" -> Threw
            [] out = "hit" -> Json(200, cache[key].data)
            [] out = "debug" -> Json(200, [startISO |-> w.startISO, endISO |-> w.endISO,
                                           tmUrl |-> url])
            [] OTHER -> None]
    /\ hist' = [hist EXCEPT ![r] =
          [@ EXCEPT !.out = out,
                    !.lookedUp = looked,
                    !.found = looked /\ key \in DOMAIN cache,
                    !.age = IF looked /\ key \in DOMAIN cache
                            THEN DiffMs(now, cache[key].ts) ELSE 0,
                    !.at = now,
                    !.calls = IF out = "fetch" THEN 1 ELSE 0]]

GETLookup(r, query, parsed, w, key, out) ==
    GETEffects(r, query, parsed, w, key, tmUrl(apiKey, parsed.data, w), out,
               out \in {"hit", "debug", "fetch"} /\ ~IsBypass(query))

GETWindow(r, query, parsed, w, key) ==
    GETLookup(r, query, parsed, w, key, Prefix(query, parsed, w, key))

GETValidated(r, query, parsed, w) ==
    GETWindow(r, query, parsed, w, cacheKey(parsed.data, w))

GETParsed(r, query, parsed) ==
    GETValidated(r, query, parsed, ResolveWindow(parsed.data.from, parsed.data.to))

GETStart(r, query) ==
    /\ pc[r] = "idle"
    /\ \A r2 \in Slots : r2 < r => pc[r2] # "idle"
    /\ GETParsed(r, query, QuerySchema(query))
    /\ UNCHANGED <<apiKey, tz, now, cache, up, ticks, ui>>

(* lines 331-409: the awaited fetch(tmUrl) and the awaited body read settle and  *)
(* the handler runs to its return. Between the two awaits the handler touches   *)
(* neither the cache nor the clock, so they are taken in one step.              *)
\* the effects of the continuation. A rejected fetch, a 2xx body that is not
\* JSON and a body cut before its end raise out of the handler; so does a non-2xx body that is not JSON, whose
\* r.text() in the catch clause finds the body already read by r.json(). A
\* non-2xx response without any body yields details "".
FetchEffects(r, u, c, data, stores) ==
    /\ resp' = [resp EXCEPT ![r] =
          CASE u = Reject -> Threw
            [] u # Reject /\ ~u.ok /\ u.body = "json" ->
                  Json(u.status, [error |-> "Ticketmaster request failed",
                                  details |-> u.raw, tmUrl |-> c.tmUrl])
            [] u # Reject /\ ~u.ok /\ u.body = "none" ->
                  Json(u.status, [error |-> "Ticketmaster request failed",
                                  details |-> "", tmUrl |-> c.tmUrl])
            [] u # Reject /\ u.ok /\ u.body = "json" -> Json(200, data)
            [] OTHER -> Threw]
    /\ cache' = IF stores THEN CacheSet(c.cacheKey, data) ELSE cache
    /\ hist' = [hist EXCEPT ![r] =
          [@ EXCEPT !.stored = stores,
                    !.storedAt = IF stores THEN now ELSE @,
                    !.storeNo = IF stores
                                THEN 1 + Cardinality({x \in Slots : hist[x].stored})
                                ELSE @,
                    !.racing = IF stores
                               THEN {x \in Slots \ {r} : pc[x] = "fetch"}
                               ELSE @]]

\* the store placed ahead of the status check
Stores_BeforeStatusCheck(u, c) == u # Reject /\ u.body = "json" /\ ~c.nocache

\* the store made once the response head is in, before the body has been read
Stores_OnResponseHead(u, c) == u # Reject /\ u.ok /\ u.body \in {"json", "cut"} /\ ~c.nocache

\* the store without its bypass guard
StoresIgnoringBypass(u, c) == u # Reject /\ u.ok /\ u.body = "json"

\* lines 332, 344, 407: the store is reached with a parsed 2xx body and no bypass flag
Stores(u, c) == u # Reject /\ u.ok /\ u.body = "json" /\ ~c.nocache

FetchSettle(r, u) ==
    /\ pc[r] = "fetch"
    /\ FetchEffects(r, u, ctx[r], BuildData(u.raw, ctx[r]), Stores(u, ctx[r]))
    /\ pc' = [pc EXCEPT ![r] = "done"]
    /\ up' = [up EXCEPT ![r] = u]
    /\ UNCHANGED <<apiKey, tz, now, req, ctx, ticks, ui>>

(* the wall clock advances *)
Tick(d) ==
    /\ ticks < MaxTicks
    /\ now' = PlusMs(now, d)
    /\ ticks' = ticks + 1
    /\ UNCHANGED <<apiKey, tz, cache, pc, req, ctx, up, resp, hist, ui>>

Next ==
    \/ \E r \in Slots, query \in Queries : GETStart(r, query)
    \/ \E r \in Slots, u \in Upstreams : FetchSettle(r, u)
    \/ \E d \in ClockSteps : Tick(d)

Spec == Init /\ [][Next]_vars

(* One invocation of GET over the wide input set, in three local time zones *)
InitOne ==
    /\ apiKey \in ApiKeys
    /\ tz \in TZOffsets \cup {0, 3600}
    /\ now = Now0
    /\ cache = << >>
    /\ pc = [r \in Slots |-> "idle"]
    /\ req = [r \in Slots |-> None]
    /\ ctx = [r \in Slots |-> None]
    /\ up = [r \in Slots |-> None]
    /\ resp = [r \in Slots |-> None]
    /\ hist = [r \in Slots |-> NoHist]
    /\ ticks = 0
    /\ ui = PageInit

NextOne ==
    \/ \E query \in AllQueries : GETStart(1, query)
    \/ \E u \in Upstreams : FetchSettle(1, u)
    \/ \E d \in ClockSteps : Tick(d)

SpecOne == InitOne /\ [][NextOne]_vars

(* Two invocations of GET over the queries that spell one request several ways *)
NextKey ==
    \/ \E r \in {1, 2}, query \in KeyQueries : GETStart(r, query)
    \/ \E r \in {1, 2}, u \in KeyUpstreams : FetchSettle(r, u)
    \/ Tick(TTL_MS - 1)

SpecKey == Init /\ [][NextKey]_vars

----------------------------------------------------------------------------
(* The events page (src/unnamed/part_002): search(), the effects, the timer *)

serverVars == <<apiKey, tz, now, cache, pc, req, ctx, up, resp, hist, ticks>>

\* the request lastControllerRef points at is still awaiting its answer
Live(u) == u.lastController # 0 /\ u.reqs[u.lastController].state = "flight"

\* the request a call of search() starts: the query string of the render the
\* callback belongs to; cause and idle (ms since the query string last changed)
\* record how the call came about
NewRequest(u, cause) ==
    [qs |-> queryString(u), cause |-> cause, idle |-> u.idle,
     state |-> "flight", aborted |-> FALSE, wrote |-> FALSE, answer |-> Null]

\* lines 93-95: lastControllerRef.current.abort(). The fetch of an aborted
\* request rejects with an AbortError, which its catch clause ignores.
AbortLast(u) ==
    IF Live(u)
    THEN [u.reqs EXCEPT ![u.lastController] = [@ EXCEPT !.state = "done", !.aborted = TRUE]]
    ELSE u.reqs

\* search() without the abort of the request before
search_NoAbort(u, cause) ==
    [u EXCEPT !.reqs = Append(u.reqs, NewRequest(u, cause)),
              !.lastController = Len(u.reqs) + 1,
              !.error = Null,
              !.loading = TRUE]

\* lines 91-105, search() up to its first await, together with the continuation
\* of the request it aborted: that request's rejection is handled once the
\* calling code has returned, so its `finally` (setLoading(false), line 126)
\* runs after this call's setLoading(true) (line 100)
search(u, cause) ==
    [u EXCEPT !.reqs = Append(AbortLast(u), NewRequest(u, cause)),
              !.lastController = Len(u.reqs) + 1,
              !.error = Null,
              !.loading = ~Live(u)]

\* lines 12-28 and 148-151 after a render: when the query string changed, the
\* debounce timer is cleared and armed again and, `search` being a new callback,
\* the effect on [center, search] calls it
Commit(old, new) ==
    IF queryString(new) # queryString(old)
    THEN search([new EXCEPT !.timer = DebounceDelay, !.idle = 0], "change")
    ELSE new

\* first render: the debounce effect arms its timer, the mount effect (lines
\* 142-145) and the centre effect (lines 148-151) each call search()
Mount ==
    /\ ~ui.mounted
    /\ ui' = search(search([ui EXCEPT !.mounted = TRUE, !.timer = DebounceDelay, !.idle = 0],
                           "mount"), "mount")
    /\ UNCHANGED serverVars

CanSearch == ui.mounted /\ Len(ui.reqs) < MaxSearches

\* line 184: onChange of the keyword box
SetQ(v) ==
    /\ CanSearch /\ v # ui.q
    /\ ui' = Commit(ui, [ui EXCEPT !.q = v])
    /\ UNCHANGED serverVars

\* lines 193, 201: onChange of the date boxes
SetFrom(v) ==
    /\ CanSearch /\ v # ui.from
    /\ ui' = Commit(ui, [ui EXCEPT !.from = v])
    /\ UNCHANGED serverVars

SetTo(v) ==
    /\ CanSearch /\ v # ui.to
    /\ ui' = Commit(ui, [ui EXCEPT !.to = v])
    /\ UNCHANGED serverVars

\* lines 212-218: onChange of the radius box
SetRadius(val) ==
    /\ CanSearch /\ ClampRadius(val) # ui.radius
    /\ ui' = Commit(ui, [ui EXCEPT !.radius = ClampRadius(val)])
    /\ UNCHANGED serverVars

\* lines 153-158: a city is picked. setCenter gets a new object, so the effect on
\* [center, search] runs even when the coordinates are the old ones
SelectCity(place) ==
    /\ CanSearch
    /\ ui' = IF place # ui.center
             THEN Commit(ui, [ui EXCEPT !.center = place])
             ELSE search(ui, "change")
    /\ UNCHANGED serverVars

\* line 229: the Search button, disabled while loading (line 231)
Click ==
    /\ CanSearch /\ ~ui.loading
    /\ ui' = search(ui, "click")
    /\ UNCHANGED serverVars

\* time passes in the browser; a timer that is due fires before more time passes
Elapse(d) ==
    /\ ui.mounted
    /\ ui.timer = NoTimer \/ ui.timer >= d
    /\ ui.timer # NoTimer \/ ui.idle < DebounceDelay
    /\ ui' = [ui EXCEPT !.timer = IF @ = NoTimer THEN @ ELSE @ - d,
                        !.idle = IF @ + d > DebounceDelay THEN DebounceDelay ELSE @ + d]
    /\ UNCHANGED serverVars

\* lines 13-16: the debounce timer fires and calls the effect, which calls search()
TimerFires ==
    /\ CanSearch /\ ui.timer = 0
    /\ ui' = search([ui EXCEPT !.timer = NoTimer], "debounce")
    /\ UNCHANGED serverVars

\* lines 103-127: the awaited fetch and body of request i settle with answer a
\* and search() runs to its end
Respond(i, a) ==
    /\ ui.mounted
    /\ i \in 1..Len(ui.reqs)
    /\ ui.reqs[i].state = "flight"
    /\ ui' = [ui EXCEPT !.reqs[i] = [@ EXCEPT !.state = "done", !.wrote = TRUE, !.answer = a],
                        !.events = IF ErrorOf(a) = Null THEN CardsOf(a) ELSE @,
                        !.error = IF ErrorOf(a) = Null THEN @ ELSE ErrorOf(a),
                        !.loading = FALSE]
    /\ UNCHANGED serverVars

TimeSteps == {300, 600}

NextPage ==
    \/ Mount
    \/ \E v \in KeywordsTyped : SetQ(v)
    \/ \E v \in DatesTyped \cup {Empty} : SetFrom(v)
    \/ \E v \in DatesTyped \cup {Empty} : SetTo(v)
    \/ \E val \in RadiiTyped : SetRadius(val)
    \/ \E place \in Places : SelectCity(place)
    \/ Click
    \/ \E d \in TimeSteps : Elapse(d)
    \/ TimerFires
    \/ \E i \in 1..MaxSearches, a \in PageAnswers : Respond(i, a)

InitPage == Init /\ Truthy(apiKey)

SpecPage == InitPage /\ [][NextPage]_vars

----------------------------------------------------------------------------
(* Properties *)

Started(r) == pc[r] # "idle"
Finished(r) == pc[r] = "done"
Answered(r, status) == Finished(r) /\ resp[r].k = "json" /\ resp[r].status = status
CarriesResults(r) == Answered(r, 200) /\ "results" \in DOMAIN resp[r].body
PassedChecks(r) == Started(r) /\ hist[r].out \notin {"500", "400"}

\* C1: of two sequential calls with identical parameters and no bypass flag, the
\* first having stored its result and the second starting later and less than
\* TTL after that store, the second makes no upstream call and returns the
\* response of the first.
C1_SecondCallIsCacheHit ==
    \A r1, r2 \in Slots :
        ( /\ r1 # r2
          /\ Finished(r1) /\ Finished(r2)
          /\ req[r1] = req[r2]
          /\ ~IsBypass(req[r1])
          /\ Answered(r1, 200) /\ hist[r1].stored
          /\ Before(hist[r1].storedAt, hist[r2].at)
          /\ DiffMs(hist[r2].at, hist[r1].storedAt) < TTL_MS )
        => (hist[r2].calls = 0 /\ resp[r2] = resp[r1])

\* C2: a non-bypass request that passed the credential and validation checks is
\* answered from the cache exactly when an entry for its fingerprint existed at
\* the lookup with an age below TTL; otherwise it goes on to the upstream call.
C2_HitIffFreshEntry ==
    \A r \in Slots :
        (PassedChecks(r) /\ ~IsBypass(req[r]))
        => /\ (hist[r].out = "hit") <=> (hist[r].found /\ hist[r].age < TTL_MS)
           /\ ~(hist[r].found /\ hist[r].age < TTL_MS) => hist[r].calls = 1

\* C3: a request with nocache=1 that passed the credential and validation checks
\* issues an upstream call.
C3_BypassCallsUpstream ==
    \A r \in Slots : (PassedChecks(r) /\ IsBypass(req[r])) => hist[r].calls = 1

\* C4: no step of a request carrying nocache=1 reads or changes the cache.
C4_BypassLeavesCache ==
    [][\A r \in Slots :
          (pc'[r] # pc[r] /\ IsBypass(req'[r])) => (cache' = cache /\ ~hist'[r].lookedUp)]_vars

\* a bypass request returned fresh results while the cache held an entry for its fingerprint
C4_Witness ==
    \E r \in Slots :
        /\ CarriesResults(r) /\ IsBypass(req[r]) /\ hist[r].calls = 1
        /\ ctx[r].cacheKey \in DOMAIN cache

\* the window of the request as the caller gave it: `from` as local midnight (the
\* clock's second when absent), `to` as local end of day, in whole seconds
InputStart(r) ==
    IF Truthy(req[r].from) THEN req[r].from.day * SecPerDay - tz ELSE hist[r].at.s
InputEnd(r) == req[r].to.day * SecPerDay + (SecPerDay - 1) - tz
ReachedLookup(r) == ctx[r] # None
EndDefined(r) == ReachedLookup(r) /\ ctx[r].endISO # Undefined

\* C5: whenever a request reached the cache lookup with a defined window end,
\* its resolved start is not after its resolved end.
C5_StartNotAfterEnd ==
    \A r \in Slots : EndDefined(r) => ctx[r].startISO.s <= ctx[r].endISO.s

\* a request whose `from` date is after its `to` date reached the lookup
C5_Witness ==
    \E r \in Slots :
        /\ EndDefined(r)
        /\ req[r].from.k = "date" /\ req[r].to.k = "date"
        /\ req[r].from.day > req[r].to.day

\* C6: whenever a request reached the cache lookup with a defined window end,
\* end - start is at most 180 days, and a wider input window has its earlier
\* bound kept as start and start + 180 days as end.
C6_WindowCapped ==
    \A r \in Slots :
        EndDefined(r) =>
            /\ ctx[r].endISO.s - ctx[r].startISO.s <= 60 * 60 * 24 * 180
            /\ (InputEnd(r) - InputStart(r) > 60 * 60 * 24 * 180 =>
                   /\ ctx[r].startISO.s = InputStart(r)
                   /\ ctx[r].endISO.s = InputStart(r) + 60 * 60 * 24 * 180)
            /\ (InputStart(r) - InputEnd(r) > 60 * 60 * 24 * 180 =>
                   /\ ctx[r].startISO.s = InputEnd(r)
                   /\ ctx[r].endISO.s = InputEnd(r) + 60 * 60 * 24 * 180)

\* a request whose input window is wider than 180 days reached the lookup
C6_Witness ==
    \E r \in Slots :
        /\ EndDefined(r)
        /\ InputEnd(r) - InputStart(r) > 60 * 60 * 24 * 180
        /\ ctx[r].endISO.s - ctx[r].startISO.s = 60 * 60 * 24 * 180

\* the instant an event is compared by: local end of day for a date-only start,
\* the parsed instant for a full timestamp
EffectiveInstant(str) ==
    IF str.k = "date" THEN T(str.day * SecPerDay + (SecPerDay - 1) - tz, 999)
    ELSE T(str.s, str.ms)
ParsesAsDate(str) == str.k \in {"date", "ts"}

InsideWindow(str, c) ==
    /\ ParsesAsDate(str)
    /\ AtMost(T(c.startISO.s, 0), EffectiveInstant(str))
    /\ (c.endISO = Undefined \/ AtMost(EffectiveInstant(str), T(c.endISO.s, 0)))

\* C7: every event of a 200 response carrying results, fresh or from the cache,
\* has a start that parses and an effective instant inside the request's window.
C7_ResultsInsideWindow ==
    \A r \in Slots :
        CarriesResults(r) =>
            \A i \in 1..Len(resp[r].body.results) :
                InsideWindow(resp[r].body.results[i].start, ctx[r])

\* a request was answered from the cache with events, the upstream payload
\* behind them having held events outside the window and an unparsable one
C7_Witness ==
    \E r \in Slots :
        /\ CarriesResults(r) /\ hist[r].out = "hit"
        /\ Len(resp[r].body.results) > 0
        /\ \E r2 \in Slots :
              /\ up[r2] # None /\ up[r2] # Reject
              /\ Len(up[r2].raw.events) > Len(resp[r].body.results)

\* C8: the events of every returned result sequence are in ascending order of
\* effective instant.
C8_SortedByEffectiveInstant ==
    \A r \in Slots :
        CarriesResults(r) =>
            \A i \in 1..(Len(resp[r].body.results) - 1) :
                AtMost(EffectiveInstant(resp[r].body.results[i].start),
                       EffectiveInstant(resp[r].body.results[i + 1].start))

\* a numeric parameter that is present and not a number or outside lo..hi
BadNumber(raw, lo, hi) ==
    raw.k = "str" /\ (Number(raw.s) = NaN \/ Number(raw.s).v < 10 * lo \/ Number(raw.s).v > 10 * hi)

ViolatesRule(query) ==
    \/ query.q.k = "str" /\ Len(trim(query.q.s)) > 80
    \/ BadNumber(query.lat, 0 - 90, 90)
    \/ BadNumber(query.lng, 0 - 180, 180)
    \/ BadNumber(query.radius, 1, 1000)
    \/ BadNumber(query.page, 0, 49)

Rejected400(r) ==
    /\ Answered(r, 400)
    /\ DOMAIN resp[r].body = {"error", "details"}
    /\ hist[r].calls = 0 /\ ~hist[r].lookedUp /\ ~hist[r].stored

\* C9 as stated: every request whose parameters violate a validator rule is
\* answered 400 {error, details} with no upstream call and no cache access.
C9_InvalidQueryIs400 ==
    \A r \in Slots : (Started(r) /\ ViolatesRule(req[r])) => Rejected400(r)

\* C9 amended: the same, for requests made while the API key is configured.
C9_InvalidQueryIs400WithKey ==
    \A r \in Slots : (Started(r) /\ Truthy(apiKey) /\ ViolatesRule(req[r])) => Rejected400(r)

\* a request with a page above the ceiling was answered 400 naming the field
C9_Witness ==
    \E r \in Slots :
        /\ Answered(r, 400) /\ Truthy(apiKey)
        /\ req[r].page = S(<<"5", "0">>)
        /\ resp[r].body.details = {"page"}

GotResponse(r) == Finished(r) /\ up[r] # None /\ up[r] # Reject

\* C11: a request whose upstream call returned a non-2xx status is answered with
\* that status and a body carrying error and details (the upstream body when it
\* is JSON), after exactly one upstream call.
C11_UpstreamErrorForwarded ==
    \A r \in Slots :
        (GotResponse(r) /\ ~up[r].ok) =>
            /\ Answered(r, up[r].status)
            /\ {"error", "details"} \subseteq DOMAIN resp[r].body
            /\ (up[r].body = "json" => resp[r].body.details = up[r].raw)
            /\ hist[r].calls = 1

\* request r missed at its lookup: no entry under its key, or one of age >= TTL
MissedAtLookup(r) == hist[r].lookedUp /\ ~(hist[r].found /\ hist[r].age < TTL_MS)

\* C12: the cache changes only in the step of a non-bypass request that missed
\* at its lookup and whose upstream call returned a 2xx response, and then to
\* hold the normalised, filtered body that request returns; a step that ends a
\* request with a 400, a 500, an upstream non-2xx status or an exception leaves
\* the cache as it was.
C12_StoreOnlyAfterMissAnd2xx ==
    [][ /\ (cache' # cache =>
              \E r \in Slots :
                  /\ pc[r] = "fetch" /\ pc'[r] = "done"
                  /\ ~IsBypass(req[r]) /\ MissedAtLookup(r)
                  /\ up'[r] # Reject /\ up'[r].ok
                  /\ resp'[r].k = "json" /\ resp'[r].status = 200
                  /\ DOMAIN resp'[r].body = {"results", "pageInfo"}
                  /\ cache' = CacheSet(ctx[r].cacheKey, resp'[r].body))
        /\ \A r \in Slots :
              (pc[r] # "done" /\ pc'[r] = "done" /\ (resp'[r] = Threw \/ resp'[r].status # 200))
              => cache' = cache ]_vars

\* one request stored its result and another, answered with the upstream's
\* non-2xx status, stored nothing
C12_Witness ==
    \E r1, r2 \in Slots :
        /\ hist[r1].stored /\ cache # << >>
        /\ GotResponse(r2) /\ ~up[r2].ok /\ Answered(r2, up[r2].status)
        /\ ~hist[r2].stored

\* C13: every invocation ends by returning a response, never by an exception
\* leaving the handler.
C13_EveryInvocationReturns ==
    \A r \in Slots : Finished(r) => resp[r].k = "json"

\* C14: the body of every 200 response carries results and pageInfo.
C14_OkBodyHasResultsAndPageInfo ==
    \A r \in Slots :
        Answered(r, 200) => {"results", "pageInfo"} \subseteq DOMAIN resp[r].body

\* the upstream call was aborted: before the response head (fetch rejects) or
\* while the body was being received
Aborted(u) == u = Reject \/ u.body = "cut"

\* C15: no step of a request whose upstream call ends aborted changes the cache:
\* neither its prefix nor the step in which the aborted call settles.
C15_AbortedCallStoresNothing ==
    [][\A r \in Slots :
          (pc'[r] # pc[r] /\ (pc[r] = "idle" \/ Aborted(up'[r])))
          => (cache' = cache /\ ~hist'[r].stored)]_vars

\* a request whose upstream body was cut short finished while the cache held the
\* entry a request racing with it on the same key had stored
C15_Witness ==
    \E r, r2 \in Slots :
        /\ GotResponse(r) /\ up[r].ok /\ up[r].body = "cut"
        /\ hist[r2].stored /\ r \in hist[r2].racing
        /\ ctx[r].cacheKey = ctx[r2].cacheKey
        /\ cache[ctx[r].cacheKey] = [ts |-> hist[r2].storedAt, data |-> resp[r2].body]

\* request r stored under key k
StoredUnder(r, k) == hist[r].stored /\ ctx[r].cacheKey = k

\* the entry under key k is the one written by the latest store under k
HoldsLastStore(k) ==
    \E r \in Slots :
        /\ StoredUnder(r, k)
        /\ \A x \in Slots : StoredUnder(x, k) => hist[x].storeNo <= hist[r].storeNo
        /\ k \in DOMAIN cache
        /\ cache[k] = [ts |-> hist[r].storedAt, data |-> resp[r].body]

\* C16: when two requests stored under the same key and the second was already
\* awaiting its upstream call when the first stored, both had missed at their
\* lookup, both called upstream, both returned 200 with results, and the entry
\* under the key is the one the later store wrote.
C16_BothCallUpstreamLastWriterWins ==
    \A r1, r2 \in Slots :
        ( /\ r1 # r2
          /\ hist[r1].stored /\ hist[r2].stored
          /\ ctx[r1].cacheKey = ctx[r2].cacheKey
          /\ r2 \in hist[r1].racing )
        => /\ ~IsBypass(req[r1]) /\ ~IsBypass(req[r2])
           /\ MissedAtLookup(r1) /\ MissedAtLookup(r2)
           /\ hist[r1].calls = 1 /\ hist[r2].calls = 1
           /\ CarriesResults(r1) /\ CarriesResults(r2)
           /\ hist[r1].storeNo < hist[r2].storeNo
           /\ HoldsLastStore(ctx[r1].cacheKey)

\* two requests with one key were both awaiting upstream, the first stored, the
\* second then stored a different body, and the cache holds the second's
C16_Witness ==
    \E r1, r2 \in Slots :
        /\ r1 # r2
        /\ hist[r1].stored /\ hist[r2].stored
        /\ ctx[r1].cacheKey = ctx[r2].cacheKey
        /\ r2 \in hist[r1].racing
        /\ resp[r1].body # resp[r2].body
        /\ DOMAIN cache = {ctx[r1].cacheKey}
        /\ cache[ctx[r1].cacheKey].data = resp[r2].body

\* C17 as stated: no step changes or removes an entry whose age is below TTL.
C17_EntryUnchangedUntilExpiry ==
    [][\A k \in DOMAIN cache :
          CacheFresh(cache[k]) => (k \in DOMAIN cache' /\ cache'[k] = cache[k])]_vars

\* C17 amended: an entry whose age is below TTL is never removed, and it is
\* changed only by the store of a request that was already awaiting its
\* upstream call when the entry was written.
C17_EntryUnchangedBySuccessors ==
    [][\A k \in DOMAIN cache :
          CacheFresh(cache[k]) =>
              /\ k \in DOMAIN cache'
              /\ (cache'[k] # cache[k] =>
                    \E r, r0 \in Slots :
                        /\ r # r0
                        /\ pc[r] = "fetch" /\ pc'[r] = "done" /\ ctx[r].cacheKey = k
                        /\ StoredUnder(r0, k)
                        /\ cache[k] = [ts |-> hist[r0].storedAt, data |-> resp[r0].body]
                        /\ r \in hist[r0].racing)]_vars

\* a request that looked up the key after the entry was stored, the clock having
\* moved on but by less than TTL, was answered from the entry and left it as written
C17_Witness ==
    \E r0, r \in Slots :
        /\ hist[r0].stored /\ hist[r].out = "hit"
        /\ ctx[r].cacheKey = ctx[r0].cacheKey
        /\ Before(hist[r0].storedAt, hist[r].at)
        /\ cache[ctx[r].cacheKey] = [ts |-> hist[r0].storedAt, data |-> resp[r0].body]

\* the validated, normalised requests of two contexts agree member by member
SameRequest(c1, c2) ==
    /\ c1.data.q = c2.data.q
    /\ c1.data.lat = c2.data.lat
    /\ c1.data.lng = c2.data.lng
    /\ c1.data.radius = c2.data.radius
    /\ c1.startISO = c2.startISO
    /\ c1.endISO = c2.endISO
    /\ c1.data.page = c2.data.page

\* C18: two requests that reached the lookup have the same cache key exactly
\* when their trimmed keyword, lat, lng, defaulted radius, resolved start,
\* resolved end and page are equal; requests whose upstream query or re-filter
\* window differ have different keys.
C18_SameKeyIffSameRequest ==
    \A r1, r2 \in Slots :
        (ReachedLookup(r1) /\ ReachedLookup(r2)) =>
            /\ (ctx[r1].cacheKey = ctx[r2].cacheKey) <=> SameRequest(ctx[r1], ctx[r2])
            /\ (ctx[r1].tmUrl # ctx[r2].tmUrl => ctx[r1].cacheKey # ctx[r2].cacheKey)
            /\ (req[r1].q.k = "str" /\ req[r2].q.k = "str"
                /\ trim(req[r1].q.s) = trim(req[r2].q.s)
                /\ [req[r1] EXCEPT !.q = Undefined] = [req[r2] EXCEPT !.q = Undefined]
                /\ hist[r1].at = hist[r2].at
                => ctx[r1].cacheKey = ctx[r2].cacheKey)

\* a request whose keyword is that of an earlier one padded with blanks, or the
\* other way round, was answered from the entry the earlier one stored
C18_Witness ==
    \E r1, r2 \in Slots :
        /\ hist[r1].stored /\ hist[r2].out = "hit"
        /\ req[r1].q # req[r2].q
        /\ ctx[r1].cacheKey = ctx[r2].cacheKey
        /\ resp[r2].body = resp[r1].body

\* the start of request r's window is `sec` in all three places that use it:
\* the handler's startISO (read by the re-filter), the upstream query's
\* startDateTime and the cache key's startISO member
StartEverywhere(r, sec) ==
    /\ ctx[r].startISO = Iso(sec)
    /\ ctx[r].tmUrl.startDateTime = Iso(sec)
    /\ \E i \in DOMAIN ctx[r].cacheKey :
          /\ ctx[r].cacheKey[i].name = "startISO"
          /\ ctx[r].cacheKey[i].text = NatToString(sec)

OmitsFrom(r) == ReachedLookup(r) /\ ~Truthy(req[r].from)

\* `to` names a day whose local end lies before the second the request was made in
ToInPast(r) == Truthy(req[r].to) /\ InputEnd(r) < hist[r].at.s

PageOf(query) == IF query.page.k = "str" THEN Number(query.page.s) ELSE Num(0)

\* C20: with the API key configured, every request that passes validation has
\* an integer page in 0..49, and a page parameter that is a number but no
\* integer, or outside 0..49, is answered 400.
C20_PageIsIntegerInRange ==
    \A r \in Slots :
        (Started(r) /\ Truthy(apiKey)) =>
            /\ (hist[r].out # "400" =>
                   /\ PageOf(req[r]) # NaN
                   /\ PageOf(req[r]).v % 10 = 0
                   /\ PageOf(req[r]).v >= 0 /\ PageOf(req[r]).v <= 10 * 49)
            /\ (PageOf(req[r]) # NaN
                /\ (PageOf(req[r]).v % 10 # 0 \/ PageOf(req[r]).v < 0 \/ PageOf(req[r]).v > 10 * 49)
                => Rejected400(r))

\* request r was answered 200 with results built from its own upstream call
FreshResults(r) == CarriesResults(r) /\ hist[r].out = "fetch" /\ up[r].raw.embedded

\* event `id` is among the results of request r
InResults(r, id) == \E j \in 1..Len(resp[r].body.results) : resp[r].body.results[j].id = id

\* C21: when `to` is the day D, the window start is not after the end of D and
\* the span is within the cap, every upstream event whose start is the date-only
\* string D is among the results.
C21_DateOnlyOnLastDayKept ==
    \A r \in Slots :
        ( /\ FreshResults(r)
          /\ req[r].to.k = "date"
          /\ InputStart(r) <= InputEnd(r)
          /\ InputEnd(r) - InputStart(r) <= 60 * 60 * 24 * 180 )
        => \A i \in 1..Len(up[r].raw.events) :
              ( /\ up[r].raw.events[i].dateTime = Undefined
                /\ up[r].raw.events[i].localDate = req[r].to )
              => InResults(r, up[r].raw.events[i].id)

\* the upstream record behind result j of request r
RawOf(r, j) ==
    CHOOSE ev \in {up[r].raw.events[i] : i \in 1..Len(up[r].raw.events)} :
        ev.id = resp[r].body.results[j].id

\* a JSON value that is there and parses as a finite number
ParsesAsNumber(x) == x.k = "num" \/ (x.k = "str" /\ Number(x.s) # NaN)

\* C22: a returned event has coords exactly when the upstream venue location
\* carries a latitude and a longitude that both parse as numbers, 0 included.
C22_CoordsIffBothNumeric ==
    \A r \in Slots :
        FreshResults(r) =>
            \A j \in 1..Len(resp[r].body.results) :
                (resp[r].body.results[j].coords # Undefined)
                <=> ( /\ ParsesAsNumber(RawOf(r, j).latitude)
                      /\ ParsesAsNumber(RawOf(r, j).longitude) )

\* C25: no response body carries the configured API key.
C25_KeyNeverInResponse ==
    \A r \in Slots :
        (Finished(r) /\ resp[r].k = "json" /\ "tmUrl" \in DOMAIN resp[r].body)
        => resp[r].body.tmUrl.apikey # apiKey

\* the requests the page has started, and those still awaiting their answer
Requests == 1..Len(ui.reqs)
InFlight(i) == ui.reqs[i].state = "flight"

\* C23: every request the page starts because an input changed (at once through
\* the effect on the callback, or later through the debounce timer) starts when
\* the query string has been unchanged for the debounce delay.
C23_RequestOnlyAfterQuietDelay ==
    \A i \in Requests :
        ui.reqs[i].cause \in {"change", "debounce"} => ui.reqs[i].idle >= 600

\* the latest request that settled with a successful answer, 0 if there is none
LastShown ==
    IF \E i \in Requests : ui.reqs[i].wrote /\ ErrorOf(ui.reqs[i].answer) = Null
    THEN CHOOSE i \in Requests :
            /\ ui.reqs[i].wrote /\ ErrorOf(ui.reqs[i].answer) = Null
            /\ \A j \in Requests :
                  (ui.reqs[j].wrote /\ ErrorOf(ui.reqs[j].answer) = Null) => j <= i
    ELSE 0

AllSettled == ui.mounted /\ \A i \in Requests : ~InFlight(i)

\* at most one request awaits its answer, it is the latest one, and an aborted
\* request has written neither the events nor the error
OneLiveNoStaleWrite ==
    /\ \A i \in Requests : InFlight(i) => i = Len(ui.reqs)
    /\ \A i \in Requests : ui.reqs[i].aborted => (~ui.reqs[i].wrote /\ i < Len(ui.reqs))

\* C24 as stated: at most one live request, no write by an aborted one, and once
\* all requests have settled the events on display are those the latest request
\* was answered with (none when it failed).
C24_DisplayIsLatestSearch ==
    /\ OneLiveNoStaleWrite
    /\ AllSettled =>
          ui.events = IF ErrorOf(ui.reqs[Len(ui.reqs)].answer) = Null
                      THEN CardsOf(ui.reqs[Len(ui.reqs)].answer)
                      ELSE <<>>

\* C24 amended: once all requests have settled, a latest request that succeeded
\* has its events on display and no error; one that failed has its message in
\* `error` and the events are still those of the latest request that succeeded
\* (none before the first success).
C24_DisplayIsLatestSuccess ==
    /\ OneLiveNoStaleWrite
    /\ ui.events = IF LastShown = 0 THEN <<>> ELSE CardsOf(ui.reqs[LastShown].answer)
    /\ AllSettled => ui.error = ErrorOf(ui.reqs[Len(ui.reqs)].answer)

\* a request other than the first was aborted by a later search, the later one
\* got events, and all requests have settled with those events on display
C24_Witness ==
    /\ AllSettled
    /\ \E i \in Requests : ui.reqs[i].aborted /\ i > 1
    /\ LastShown = Len(ui.reqs)
    /\ ui.events # <<>>

\* C26: while a request awaits its answer, loading is true.
C26_LoadingWhileInFlight ==
    \A i \in Requests : InFlight(i) => ui.loading

====
